---- MODULE Spec2Model ----
(***************************************************************************)
(* Model of lib_simulation.py: LibSimulation.__init__, simulate,           *)
(* _generate_arrives and simulate_day, with the PriorityQueue (binary heap *)
(* of tuples) the event loop runs on.                                      *)
(*                                                                         *)
(* Times are seconds.  The draws of np.random.exponential are floats in    *)
(* the program; here every timestamp is an exact integer, so float         *)
(* rounding is not modelled.  A constructor argument is a rational number  *)
(* <<numerator, denominator>>.                                             *)
(***************************************************************************)
EXTENDS Integers, Sequences, FiniteSets, TLC

\* ---- bounds of the model ------------------------------------------------
\* arrivals seeded per day (cap on the generator loop)
MaxArrivals == 3
\* Poisson gap draws are the multiples 0..MaxGapSteps of GapUnit
GapUnit == 200
MaxGapSteps == 3
\* exponential service draws are the multiples 0..MaxServSteps of ServUnit
ServUnit == 150
MaxServSteps == 2

\* constructor arguments: hours, minutes, minutes
TimeArgs == { <<0, 1>>, <<1, 6>> }
PersonMeanDelayArgs == { <<0 - 1, 1>>, <<0 - 1, 120>>, <<0, 1>>, <<10, 3>> }
ServiceMeanDelayArgs == { <<0 - 1, 1>>, <<1, 120>>, <<5, 3>> }
\* argument of simulate
DaysArgs == { 0, 1 }

VARIABLES
    pc,                 \* position of the program
    err,                \* exception that ended the program, or "none"
    time,               \* self.time
    person_delay,       \* self._person_delay
    service_delay,      \* self._service_delay
    gen_actual_time,    \* actual_time of _generate_arrives
    events,             \* the PriorityQueue: heap list of <<timestamp, kind>>
    people_awaiting_time,
    free_worker,
    actual_time,
    total_articles,
    waiting_persons,
    number_waiting_persons_in_time,
    event,              \* the event extracted by the current iteration
    transcur_time,
    result,             \* the triple returned by simulate_day
    args,               \* the arguments __init__ was called with
    seeded,             \* events.qsize() at line 80, -1 before that
    arrivals,           \* history: the timestamps put at line 130, in order
    service_draws,      \* history: the draws of line 112, in order
    busy_time,          \* history: time elapsed while free_worker was False
    days,               \* argument of simulate, -1 when it was not called
    people_await_time,  \* the three lists of simulate
    line_length,
    articles,
    sim_result          \* the triple returned by simulate

vars == << pc, err, time, person_delay, service_delay, gen_actual_time,
           events, people_awaiting_time, free_worker, actual_time,
           total_articles, waiting_persons, number_waiting_persons_in_time,
           event, transcur_time, result, args, seeded, arrivals,
           service_draws, busy_time, days, people_await_time, line_length,
           articles, sim_result >>

simVars == << days, people_await_time, line_length, articles, sim_result >>
confVars == << time, person_delay, service_delay, args >>
dayVars == << people_awaiting_time, free_worker, actual_time, total_articles,
              waiting_persons, number_waiting_persons_in_time, event,
              transcur_time >>

ARRIVE == "ARRIVE"
FINISH == "FINISH"
NoEvent == << 0, "none" >>
EmptyDict == [k \in {} |-> 0]

\* ---- pure helpers -------------------------------------------------------

\* int(x * k) for the rational x = <<n, d>>, d > 0: truncation toward zero
IntOfProduct(x, k) ==
    LET n == x[1] * k
    IN  IF n >= 0 THEN n \div x[2] ELSE 0 - ((0 - n) \div x[2])

\* support of np.random.poisson(lam), lam >= 0, within the bounds
PoissonDraws(lam) ==
    IF lam = 0 THEN {0} ELSE { k * GapUnit : k \in 0..MaxGapSteps }

\* support of np.random.exponential(scale), scale >= 0, within the bounds
ExponentialDraws(scale) ==
    IF scale = 0 THEN {0} ELSE { k * ServUnit : k \in 0..MaxServSteps }

\* a < b on event tuples: "lt", "ge", or "TypeError" (equal timestamps and
\* different EventType members, which define no ordering)
TupleLess(a, b) ==
    IF a[1] # b[1] THEN (IF a[1] < b[1] THEN "lt" ELSE "ge")
    ELSE IF a[2] = b[2] THEN "ge"
    ELSE "TypeError"

Swap(heap, i, j) == [heap EXCEPT ![i] = heap[j], ![j] = heap[i]]

\* heapq._siftdown, positions 1-based; result [heap, ok]
RECURSIVE siftdown(_, _, _)
siftdown(heap, startpos, pos) ==
    IF pos > startpos
    THEN LET parentpos == pos \div 2
             c == TupleLess(heap[pos], heap[parentpos])
         IN  IF c = "TypeError" THEN [heap |-> heap, ok |-> FALSE]
             ELSE IF c = "lt"
                  THEN siftdown(Swap(heap, pos, parentpos), startpos, parentpos)
                  ELSE [heap |-> heap, ok |-> TRUE]
    ELSE [heap |-> heap, ok |-> TRUE]

\* heapq._siftup, positions 1-based; result [heap, ok]
RECURSIVE siftup(_, _, _)
siftup(heap, startpos, pos) ==
    IF 2 * pos <= Len(heap)
    THEN LET left == 2 * pos
             c == IF left + 1 <= Len(heap)
                  THEN TupleLess(heap[left], heap[left + 1])
                  ELSE "lt"
             childpos == IF c = "lt" THEN left ELSE left + 1
         IN  IF c = "TypeError" THEN [heap |-> heap, ok |-> FALSE]
             ELSE siftup(Swap(heap, pos, childpos), startpos, childpos)
    ELSE siftdown(heap, startpos, pos)

\* PriorityQueue.put: heappush
heappush(heap, item) == siftdown(Append(heap, item), 1, Len(heap) + 1)

\* PriorityQueue.get on a non-empty queue: heappop; result [heap, ok, item]
heappop(heap) ==
    LET lastelt == heap[Len(heap)]
        rest == SubSeq(heap, 1, Len(heap) - 1)
    IN  IF rest = << >>
        THEN [heap |-> rest, ok |-> TRUE, item |-> lastelt]
        ELSE LET r == siftup([rest EXCEPT ![1] = lastelt], 1, 1)
             IN  [heap |-> r.heap, ok |-> r.ok, item |-> heap[1]]

ArticlesInRoundUp(t) == (t * 22 + 3599) \div 3600

\* (transcur_time * 22) // 3600
ArticlesIn(t) == (t * 22) \div 3600

ArticlesCreditAlways(free, t) == ArticlesIn(t)

\* lines 92-93: articles are credited only for time the worker was free
ArticlesCredit(free, t) == IF free THEN ArticlesIn(t) ELSE 0

NextArrivalReset(t, g) == g

\* actual_time += np.random.poisson(...) of line 131
NextArrival(t, g) == t + g

WaitingAfterEventAtFront(waiting, ev) ==
    IF ev[2] = ARRIVE THEN << ev[1] >> \o waiting ELSE waiting

WaitingAfterAnyEvent(waiting, ev) == Append(waiting, ev[1])

\* lines 100-101: an ARRIVE puts its timestamp at the tail of the queue
WaitingAfterEvent(waiting, ev) ==
    IF ev[2] = ARRIVE THEN Append(waiting, ev[1]) ELSE waiting

WorkerFreedByAnyEvent(free, ev) == TRUE

\* lines 103-104: a FINISH frees the worker
WorkerAfterEvent(free, ev) == IF ev[2] = FINISH THEN TRUE ELSE free

WaitingAfterPeek(waiting) == waiting

\* waiting_persons.get() of line 108 removes the head of the queue
WaitingAfterGet(waiting) == Tail(waiting)

CanAdmitInverted(free, waiting) == ~free /\ waiting # << >>

CanAdmitIgnoringWorker(free, waiting) == waiting # << >>

\* lines 106-107
CanAdmit(free, waiting) == free /\ waiting # << >>

FinishTimeWithoutClock(draw, now) == draw

\* timestamp of the FINISH event scheduled at lines 110-115
FinishTime(draw, now) == draw + now

RecordOverwrite(hist, count, t) ==
    [k \in (DOMAIN hist) \cup {count} |-> IF k = count THEN t ELSE hist[k]]

\* the histogram update of lines 95-98
Record(hist, count, t) ==
    IF count \in DOMAIN hist
    THEN [hist EXCEPT ![count] = @ + t]
    ELSE [k \in (DOMAIN hist) \cup {count} |->
            IF k = count THEN t ELSE hist[k]]

RECURSIVE SumOver(_, _)
SumOver(keys, f) ==
    IF keys = {} THEN 0
    ELSE LET k == CHOOSE x \in keys : TRUE
         IN  f[k] + SumOver(keys \ {k}, f)

SumTUnweighted(hist) == SumOver(DOMAIN hist, hist)

\* sum_t of lines 118-121
SumT(hist) == SumOver(DOMAIN hist, [i \in DOMAIN hist |-> i * hist[i]])

RECURSIVE SeqSum(_)
SeqSum(s) == IF s = << >> THEN 0 ELSE s[1] + SeqSum(Tail(s))

\* a float is a rational <<numerator, denominator>>; nan is <<0, 0>>
NaN == << 0, 0 >>

\* np.mean of a list of integers: nan for the empty list
Mean(s) == IF s = << >> THEN NaN ELSE << SeqSum(s), Len(s) >>

\* float addition; nan is absorbing
RatAdd(a, b) ==
    IF a[2] = 0 \/ b[2] = 0 THEN NaN
    ELSE << a[1] * b[2] + b[1] * a[2], a[2] * b[2] >>

RECURSIVE RatSum(_)
RatSum(s) == IF s = << >> THEN << 0, 1 >> ELSE RatAdd(s[1], RatSum(Tail(s)))

\* np.mean of a list of floats
MeanOfFloats(s) ==
    IF s = << >> THEN NaN
    ELSE LET t == RatSum(s) IN << t[1], t[2] * Len(s) >>

\* float equality; nan equals nothing
RatEq(a, b) == a[2] # 0 /\ b[2] # 0 /\ a[1] * b[2] = b[1] * a[2]

SimulateResultInDayOrder(await, length, arts) ==
    << MeanOfFloats(length), Mean(arts), MeanOfFloats(await) >>

\* the return of simulate, line 63
SimulateResult(await, length, arts) ==
    << MeanOfFloats(await), MeanOfFloats(length), Mean(arts) >>

\* ---- the program --------------------------------------------------------

Init ==
    /\ pc = "new"
    /\ err = "none"
    /\ time = 0
    /\ person_delay = 0
    /\ service_delay = 0
    /\ gen_actual_time = 0
    /\ events = << >>
    /\ people_awaiting_time = << >>
    /\ free_worker = TRUE
    /\ actual_time = 0
    /\ total_articles = 0
    /\ waiting_persons = << >>
    /\ number_waiting_persons_in_time = EmptyDict
    /\ event = NoEvent
    /\ transcur_time = 0
    /\ result = "none"
    /\ args = << >>
    /\ seeded = 0 - 1
    /\ arrivals = << >>
    /\ service_draws = << >>
    /\ busy_time = 0
    /\ days = 0 - 1
    /\ people_await_time = << >>
    /\ line_length = << >>
    /\ articles = << >>
    /\ sim_result = << >>

\* LibSimulation.__init__
Construct ==
    /\ pc = "new"
    /\ \E t \in TimeArgs, p \in PersonMeanDelayArgs, s \in ServiceMeanDelayArgs :
         /\ time' = IntOfProduct(t, 3600)
         /\ person_delay' = IntOfProduct(p, 60)
         /\ service_delay' = IntOfProduct(s, 60)
         /\ args' = << t, p, s >>
    /\ pc' = "constructed"
    /\ UNCHANGED << err, gen_actual_time, events, result, seeded, arrivals,
                    service_draws, busy_time >>
    /\ UNCHANGED dayVars
    /\ UNCHANGED simVars

\* simulate, lines 53-55: the call with its three empty lists
Simulate ==
    /\ pc = "constructed"
    /\ \E n \in DaysArgs : days' = n
    /\ people_await_time' = << >>
    /\ line_length' = << >>
    /\ articles' = << >>
    /\ pc' = "simulate"
    /\ UNCHANGED << err, gen_actual_time, events, result, seeded, arrivals,
                    service_draws, busy_time, sim_result >>
    /\ UNCHANGED dayVars
    /\ UNCHANGED << time, person_delay, service_delay, args >>

\* simulate, lines 58-61: unpack the triple of the day and append
SimulateCollect ==
    /\ pc = "returned"
    /\ days >= 0
    /\ people_await_time' = Append(people_await_time, result[3])
    /\ line_length' = Append(line_length, result[1])
    /\ articles' = Append(articles, result[2])
    /\ pc' = "simulate"
    /\ UNCHANGED << err, gen_actual_time, events, result, seeded, arrivals,
                    service_draws, busy_time, days, sim_result >>
    /\ UNCHANGED dayVars
    /\ UNCHANGED << time, person_delay, service_delay, args >>

\* simulate, lines 57 and 63: range(days) is exhausted, return the means
SimulateReturn ==
    /\ pc = "simulate"
    /\ Len(articles) >= days
    /\ sim_result' = SimulateResult(people_await_time, line_length, articles)
    /\ pc' = "sim_returned"
    /\ UNCHANGED << err, gen_actual_time, events, result, seeded, arrivals,
                    service_draws, busy_time, days, people_await_time,
                    line_length, articles >>
    /\ UNCHANGED dayVars
    /\ UNCHANGED << time, person_delay, service_delay, args >>

\* simulate_day, lines 75-80, and the first draw of _generate_arrives
\* (lines 126-127); np.random.poisson raises ValueError for lam < 0.  The
\* call comes from outside or from line 58 of simulate; its locals are new.
StartDay ==
    /\ \/ pc = "constructed"
       \/ pc = "simulate" /\ Len(articles) < days
    /\ people_awaiting_time' = << >>
    /\ free_worker' = TRUE
    /\ actual_time' = 0
    /\ total_articles' = 0
    /\ waiting_persons' = << >>
    /\ IF person_delay < 0
       THEN /\ pc' = "error"
            /\ err' = "ValueError"
            /\ UNCHANGED << gen_actual_time, events >>
       ELSE /\ \E g \in PoissonDraws(person_delay) : gen_actual_time' = g
            /\ events' = << >>
            /\ pc' = "generate"
            /\ UNCHANGED err
    /\ number_waiting_persons_in_time' = EmptyDict
    /\ event' = NoEvent
    /\ transcur_time' = 0
    /\ seeded' = 0 - 1
    /\ arrivals' = << >>
    /\ service_draws' = << >>
    /\ busy_time' = 0
    /\ UNCHANGED result
    /\ UNCHANGED confVars
    /\ UNCHANGED simVars

\* the loop test of _generate_arrives (line 129) passes
GenerateTest ==
    /\ pc = "generate"
    /\ gen_actual_time < time
    /\ pc' = "put"
    /\ UNCHANGED << err, gen_actual_time, events, result, seeded, arrivals,
                    service_draws, busy_time >>
    /\ UNCHANGED dayVars
    /\ UNCHANGED confVars
    /\ UNCHANGED simVars

\* the loop body of _generate_arrives (lines 130-131); the put cannot fail:
\* every tuple in the queue is an ARRIVE.  Once MaxArrivals - 1 arrivals are
\* queued the gap drawn is one that reaches the horizon; when no draw can
\* (mean 0: every draw is 0) the loop goes on and the queue is followed up
\* to MaxArrivals entries, later puts are not recorded.
GenerateArrive ==
    /\ pc = "put"
    /\ \E g \in PoissonDraws(person_delay) :
         /\ \/ Len(events) + 1 < MaxArrivals
            \/ gen_actual_time + g >= time
            \/ person_delay = 0
         /\ gen_actual_time' = NextArrival(gen_actual_time, g)
    /\ events' = IF Len(events) < MaxArrivals
                 THEN heappush(events, << gen_actual_time, ARRIVE >>).heap
                 ELSE events
    /\ arrivals' = IF Len(events) < MaxArrivals
                   THEN Append(arrivals, gen_actual_time)
                   ELSE arrivals
    /\ pc' = "generate"
    /\ UNCHANGED << err, result, seeded, service_draws, busy_time >>
    /\ UNCHANGED dayVars
    /\ UNCHANGED confVars
    /\ UNCHANGED simVars

\* _generate_arrives returns (lines 129, 133); simulate_day line 81
GenerateReturn ==
    /\ pc = "generate"
    /\ gen_actual_time >= time
    /\ number_waiting_persons_in_time' = EmptyDict
    /\ seeded' = Len(events)
    /\ pc' = "loop"
    /\ UNCHANGED << err, gen_actual_time, events, result, people_awaiting_time,
                    free_worker, actual_time, total_articles, waiting_persons,
                    event, transcur_time, arrivals, service_draws, busy_time >>
    /\ UNCHANGED confVars
    /\ UNCHANGED simVars

\* lines 83-98: extract the next event, advance the clock, credit articles,
\* record the elapsed time in the histogram
GetEvent ==
    /\ pc = "loop"
    /\ events # << >>
    /\ LET r == heappop(events)
       IN  IF ~r.ok
           THEN /\ pc' = "error"
                /\ err' = "TypeError"
                /\ events' = r.heap
                /\ UNCHANGED busy_time
                /\ UNCHANGED dayVars
           ELSE /\ events' = r.heap
                /\ event' = r.item
                /\ transcur_time' = r.item[1] - actual_time
                /\ actual_time' = r.item[1]
                /\ total_articles' =
                     total_articles
                       + ArticlesCredit(free_worker, r.item[1] - actual_time)
                /\ number_waiting_persons_in_time' =
                     Record(number_waiting_persons_in_time,
                            Len(waiting_persons), r.item[1] - actual_time)
                /\ busy_time' = IF free_worker
                                THEN busy_time
                                ELSE busy_time + (r.item[1] - actual_time)
                /\ pc' = "apply"
                /\ UNCHANGED << err, people_awaiting_time, free_worker,
                                waiting_persons >>
    /\ UNCHANGED << gen_actual_time, result, seeded, arrivals, service_draws >>
    /\ UNCHANGED confVars
    /\ UNCHANGED simVars

\* lines 100-104: apply the event
ApplyEvent ==
    /\ pc = "apply"
    /\ waiting_persons' = WaitingAfterEvent(waiting_persons, event)
    /\ free_worker' = WorkerAfterEvent(free_worker, event)
    /\ pc' = "admit"
    /\ UNCHANGED << err, gen_actual_time, events, result, seeded, arrivals,
                    service_draws, busy_time,
                    people_awaiting_time, actual_time, total_articles,
                    number_waiting_persons_in_time, event, transcur_time >>
    /\ UNCHANGED confVars
    /\ UNCHANGED simVars

\* lines 106-116: admit the head of the waiting queue if the worker is free;
\* np.random.exponential raises ValueError for scale < 0, the put raises
\* TypeError when the heap compares the FINISH with an ARRIVE of equal time
Admit ==
    /\ pc = "admit"
    /\ IF CanAdmit(free_worker, waiting_persons)
       THEN /\ waiting_persons' = WaitingAfterGet(waiting_persons)
            /\ people_awaiting_time' =
                 Append(people_awaiting_time, actual_time - Head(waiting_persons))
            /\ IF service_delay < 0
               THEN /\ pc' = "error"
                    /\ err' = "ValueError"
                    /\ UNCHANGED << events, free_worker, service_draws >>
               ELSE \E d \in ExponentialDraws(service_delay) :
                      LET r == heappush(events,
                                        << FinishTime(d, actual_time), FINISH >>)
                      IN  /\ events' = r.heap
                          /\ service_draws' = Append(service_draws, d)
                          /\ IF r.ok
                             THEN /\ free_worker' = FALSE
                                  /\ pc' = "loop"
                                  /\ UNCHANGED err
                             ELSE /\ pc' = "error"
                                  /\ err' = "TypeError"
                                  /\ UNCHANGED free_worker
       ELSE /\ pc' = "loop"
            /\ UNCHANGED << err, events, waiting_persons, people_awaiting_time,
                            free_worker, service_draws >>
    /\ UNCHANGED << gen_actual_time, result, seeded, arrivals, busy_time,
                    actual_time, total_articles,
                    number_waiting_persons_in_time, event, transcur_time >>
    /\ UNCHANGED confVars
    /\ UNCHANGED simVars

\* line 83 with an empty queue, then lines 118-123: the reduction; the
\* division raises ZeroDivisionError when actual_time is 0
Reduce ==
    /\ pc = "loop"
    /\ events = << >>
    /\ IF actual_time = 0
       THEN /\ pc' = "error"
            /\ err' = "ZeroDivisionError"
            /\ UNCHANGED result
       ELSE /\ pc' = "returned"
            /\ result' = << << SumT(number_waiting_persons_in_time), actual_time >>,
                            total_articles,
                            Mean(people_awaiting_time) >>
            /\ UNCHANGED err
    /\ UNCHANGED << gen_actual_time, events, seeded, arrivals, service_draws,
                    busy_time >>
    /\ UNCHANGED dayVars
    /\ UNCHANGED confVars
    /\ UNCHANGED simVars

Next ==
    \/ Construct
    \/ Simulate
    \/ SimulateCollect
    \/ SimulateReturn
    \/ StartDay
    \/ GenerateTest
    \/ GenerateArrive
    \/ GenerateReturn
    \/ GetEvent
    \/ ApplyEvent
    \/ Admit
    \/ Reduce

Spec == Init /\ [][Next]_vars

\* the program runs: a step that can be taken is taken
FairSpec == Spec /\ WF_vars(Next)

\* ---- properties ---------------------------------------------------------

\* C1: every event the loop extracts has a timestamp no earlier than the
\* current time left by the previous event, so the elapsed time computed
\* for it is not negative.
C1_MonotonicTime ==
    [][pc = "loop" /\ pc' = "apply"
         => /\ event'[1] >= actual_time
            /\ actual_time' = event'[1]
            /\ transcur_time' >= 0]_vars

\* a FINISH is extracted after the clock has advanced, with events pending
C1_Witness ==
    /\ pc = "apply"
    /\ event[2] = FINISH
    /\ transcur_time > 0
    /\ actual_time > transcur_time
    /\ events # << >>

\* C2: after every processed event the durations stored in the histogram
\* sum to the current simulated time.
C2_HistogramConservation ==
    SumOver(DOMAIN number_waiting_persons_in_time,
            number_waiting_persons_in_time) = actual_time

\* a day returned with two buckets and a positive duration in each
C2_Witness ==
    /\ pc = "returned"
    /\ {0, 1} \subseteq DOMAIN number_waiting_persons_in_time
    /\ number_waiting_persons_in_time[0] > 0
    /\ number_waiting_persons_in_time[1] > 0
    /\ Len(people_awaiting_time) >= 2

\* C3: the event queue never holds more than one FINISH event.
C3_ServerExclusivity ==
    Cardinality({ i \in DOMAIN events : events[i][2] = FINISH }) <= 1

\* a FINISH is pending while a customer waits and the loop is about to
\* decide on admission
C3_Witness ==
    /\ pc = "admit"
    /\ \E i \in DOMAIN events : events[i][2] = FINISH
    /\ waiting_persons # << >>
    /\ ~free_worker

\* C4: a day seeded with no arrival completes without error with no
\* customer served, mean waiting time 0, mean queue length 0 and
\* floor(horizon * 22 / 3600) articles.
C4_DegenerateDay ==
    (seeded = 0 /\ pc # "loop")
        => /\ pc = "returned"
           /\ err = "none"
           /\ people_awaiting_time = << >>
           /\ result[1][1] = 0
           /\ result[2] = (time * 22) \div 3600
           /\ result[3] = 0

\* C5: the arrival generator terminates for every configuration.
C5_GeneratorTerminates ==
    (pc \in {"generate", "put"}) ~> (pc \notin {"generate", "put"})

\* C6: a non-positive mean inter-arrival or mean service delay is rejected
\* by the constructor: no simulation object exists for it.
C6_NonPositiveDelayRejected ==
    pc # "new" => (args[2][1] > 0 /\ args[3][1] > 0) \/ err = "InvalidParameter"

\* C7 as stated: no two arrivals of a day share a timestamp.
C7_StrictlyIncreasingArrivals ==
    pc \in {"generate", "put"}
        => \A i, j \in DOMAIN events : i # j => events[i][1] # events[j][1]

\* C7 amended: the generator produces ARRIVE events with non-decreasing
\* timestamps: every arrival already produced is no later than the
\* timestamp the next one gets (two arrivals share a timestamp when the
\* gap drawn between them is 0).
C7_NonDecreasingArrivals ==
    pc \in {"generate", "put"}
        => \A i \in DOMAIN events :
             /\ events[i][2] = ARRIVE
             /\ events[i][1] <= gen_actual_time

\* two arrivals share a timestamp and a third is later
C7_Witness ==
    /\ pc = "generate"
    /\ \E i, j, k \in DOMAIN events :
         /\ i # j
         /\ events[i][1] = events[j][1]
         /\ events[k][1] > events[i][1]

\* C8: with non-negative service draws the event loop ends exactly when
\* the event queue is empty.
C8_LoopEndsWhenEmpty ==
    (seeded >= 0 /\ service_delay >= 0 /\ pc \in {"error", "returned"})
        => events = << >>

\* C9: the waiting queue grows by exactly one entry when an ARRIVE is
\* applied, shrinks by exactly one when a customer is admitted, and no
\* other step changes its length.
C9_WaitingQueueSteps ==
    [][LET d == Len(waiting_persons') - Len(waiting_persons)
       IN  /\ Len(waiting_persons') >= 0
           /\ IF pc = "apply" /\ event[2] = ARRIVE THEN d = 1
              ELSE IF pc = "admit" /\ free_worker /\ waiting_persons # << >>
                   THEN d = 0 - 1
                   ELSE d = 0]_vars

\* an arrival joined the queue behind a waiting customer while the server
\* was busy, and a FINISH is being applied with customers waiting
C9_Witness ==
    /\ pc = "admit"
    /\ event[2] = FINISH
    /\ Len(waiting_persons) >= 2

\* C10: the article count a day returns is at most
\* floor(actual_time * 22 / 3600) for the final actual_time.
C10_ArticleBound ==
    pc = "returned" => result[2] <= (actual_time * 22) \div 3600

\* articles were credited, and fewer than the whole day would give
C10_Witness ==
    /\ pc = "returned"
    /\ result[2] > 0
    /\ result[2] < (actual_time * 22) \div 3600

\* C11: a day seeded with exactly one ARRIVE at t = 0 whose service draw is
\* d records exactly one waiting time, 0, schedules exactly one FINISH, at
\* t = d, and has an empty event queue once both events are processed.
C11_SingleCustomer ==
    (seeded = 1 /\ arrivals = << 0 >> /\ service_delay >= 0)
        => /\ err # "TypeError"
           /\ Len(service_draws) <= 1
           /\ service_draws = << >>
                => /\ people_awaiting_time = << >>
                   /\ events = << << 0, ARRIVE >> >> \/ pc \in {"apply", "admit"}
           /\ service_draws # << >>
                => /\ people_awaiting_time = << 0 >>
                   /\ \/ events = << << service_draws[1], FINISH >> >>
                      \/ /\ events = << >>
                         /\ event = << service_draws[1], FINISH >>
                         /\ actual_time = service_draws[1]
           /\ pc \in {"returned", "error"}
                => /\ events = << >>
                   /\ service_draws # << >>

\* the single customer's day is over: both events were processed, the
\* FINISH at a positive d
C11_Witness ==
    /\ seeded = 1
    /\ arrivals = << 0 >>
    /\ pc = "returned"
    /\ service_draws # << >>
    /\ service_draws[1] > 0
    /\ actual_time = service_draws[1]
    /\ events = << >>

C13_ServerTransitions ==
    [][/\ (~free_worker /\ free_worker')
            => pc = "apply" /\ event[2] = FINISH
       /\ (free_worker /\ ~free_worker')
            => /\ pc = "admit"
               /\ event[2] \in {ARRIVE, FINISH}
               /\ waiting_persons # << >>
               /\ waiting_persons' = Tail(waiting_persons)
       /\ (pc = "apply" /\ event[2] = ARRIVE)
            => free_worker' = free_worker]_vars

\* a FINISH freed the server and the next customer was admitted in the
\* same iteration
C13_Witness ==
    /\ pc = "loop"
    /\ event[2] = FINISH
    /\ ~free_worker
    /\ Len(people_awaiting_time) >= 2

\* C14: the waiting queue is ordered by non-decreasing arrival timestamp,
\* the customer admitted is the one with the smallest arrival timestamp
\* among those waiting, and the waiting time recorded for it is the
\* admission time minus its arrival timestamp, which is >= 0.
C14_FifoAdmission ==
    [][/\ \A i, j \in DOMAIN waiting_persons' :
            i < j => waiting_persons'[i] <= waiting_persons'[j]
       /\ Len(people_awaiting_time') > Len(people_awaiting_time)
            => LET person == Head(waiting_persons)
                   waited == people_awaiting_time'[Len(people_awaiting_time')]
               IN  /\ \A i \in DOMAIN waiting_persons :
                        person <= waiting_persons[i]
                   /\ waiting_persons' = Tail(waiting_persons)
                   /\ waited = actual_time - person
                   /\ waited >= 0]_vars

\* the customer just admitted waited a positive time and arrived before a
\* customer who was waiting with it and still waits
C14_Witness ==
    /\ pc = "loop"
    /\ ~free_worker
    /\ event[2] = FINISH
    /\ people_awaiting_time # << >>
    /\ people_awaiting_time[Len(people_awaiting_time)] > 0
    /\ \E i \in DOMAIN waiting_persons :
         /\ waiting_persons[i] < actual_time
         /\ waiting_persons[i] >
              actual_time - people_awaiting_time[Len(people_awaiting_time)]

\* C15: an extraction adds exactly floor(elapsed * 22 / 3600) articles when
\* the server was free before the event and none when it was busy; no
\* other step of a day changes the counter, so no remainder is carried.
C15_ArticleCredit ==
    [][IF pc = "loop" /\ pc' = "apply"
       THEN total_articles' - total_articles =
              IF free_worker THEN (transcur_time' * 22) \div 3600 ELSE 0
       ELSE \/ total_articles' = total_articles
            \/ pc \in {"constructed", "simulate"} /\ total_articles' = 0]_vars

\* a second idle interval was credited, both with a remainder dropped, and
\* a busy interval in between was credited nothing
C15_Witness ==
    /\ pc = "apply"
    /\ total_articles >= 2
    /\ busy_time * 22 >= 3600
    /\ (transcur_time * 22) % 3600 # 0
    /\ total_articles * 3600 < (actual_time - busy_time) * 22

\* C16 as stated: a day whose article total equals
\* floor(actual_time * 22 / 3600) is a day on which the server was never
\* busy.
C16_EqualityOnlyWhenIdle ==
    (pc = "returned" /\ result[2] = (actual_time * 22) \div 3600)
        => busy_time = 0

\* C16 amended: a day whose article total equals
\* floor(actual_time * 22 / 3600) is a day on which the server was busy
\* for less than the time of one article (busy time * 22 < 3600).
C16_EqualityBoundsBusyTime ==
    (pc = "returned" /\ result[2] = (actual_time * 22) \div 3600)
        => busy_time * 22 < 3600

\* equality is reached on a day on which the server was busy for a
\* positive time
C16_Witness ==
    /\ pc = "returned"
    /\ result[2] = (actual_time * 22) \div 3600
    /\ busy_time > 0
    /\ busy_time * 22 < 3600

\* C17: after every processed event a non-empty waiting queue implies a
\* busy server, and every interval credited with articles is recorded in
\* the histogram under queue length 0.
C17_WorkConservation ==
    [][/\ (pc' = "loop" /\ waiting_persons' # << >>) => ~free_worker'
       /\ total_articles' > total_articles
            => /\ Len(waiting_persons) = 0
               /\ number_waiting_persons_in_time'[0] >= transcur_time'
               /\ \A k \in (DOMAIN number_waiting_persons_in_time) \ {0} :
                    number_waiting_persons_in_time'[k] =
                      number_waiting_persons_in_time[k]]_vars

\* customers wait behind a busy server on a day with credited articles and
\* a bucket of queue length 1
C17_Witness ==
    /\ pc = "loop"
    /\ waiting_persons # << >>
    /\ ~free_worker
    /\ total_articles > 0
    /\ 1 \in DOMAIN number_waiting_persons_in_time

\* C18: when the event loop ends every seeded customer was served: the
\* waiting queue is empty, the server is free and there is one recorded
\* waiting time per seeded ARRIVE.
C18_AllServed ==
    (seeded >= 0 /\ person_delay > 0 /\ service_delay > 0
       /\ pc \in {"returned", "error"})
        => /\ waiting_persons = << >>
           /\ free_worker
           /\ Len(people_awaiting_time) = seeded

\* C19: at day end the sum over the histogram of length * duration equals
\* the sum of the recorded waiting times.
C19_QueueIntegralIsTotalWait ==
    /\ (pc = "loop" /\ events = << >>)
         => SumT(number_waiting_persons_in_time) = SeqSum(people_awaiting_time)
    /\ pc = "returned"
         => /\ result[1][1] = SeqSum(people_awaiting_time)
            /\ result[1][1] = result[3][1]

\* a day returned on which customers waited with queue lengths 1 and 2
C19_Witness ==
    /\ pc = "returned"
    /\ result[1][1] > 0
    /\ {1, 2} \subseteq DOMAIN number_waiting_persons_in_time
    /\ number_waiting_persons_in_time[1] > 0
    /\ number_waiting_persons_in_time[2] > 0

\* C20: pending events that share a timestamp are all processed, in any
\* order: with positive mean delays the program never stops on an
\* exception while tied events are pending.
C20_TiedEventsProcessed ==
    (/\ person_delay > 0
     /\ service_delay > 0
     /\ \E i, j \in DOMAIN events : i # j /\ events[i][1] = events[j][1])
        => pc # "error"

====
